---- MODULE Spec2Model ----
(***************************************************************************)
(* A model of json-toolkit's value layer (include/json-toolkit/json.h):    *)
(* the Node hierarchy as a heap of nodes, the Json handle as a pointer     *)
(* `d` into that heap, the Array/Object views, and json::compare /         *)
(* operator==.                                                             *)
(*                                                                         *)
(* A node is heap[id]; a handle is a node id.  std::shared_ptr ownership   *)
(* is modelled by releasing, at the end of every operation, the nodes no   *)
(* handle (named, nested in a container, or static) refers to any more.    *)
(***************************************************************************)
EXTENDS Integers, Sequences, FiniteSets, TLC

(* ------------------------------ bounds -------------------------------- *)
\* number of heap cells available to the program's make_shared calls
MaxNodes == 3
\* number of handles the containers of the modelled program hold in all
\* (array elements plus object entries)
MaxEdges == 2
\* width of `int` in the model (two's complement, scaled down from 32)
IntBits == 3
\* longest array among the values json::compare is applied to
MaxElems == 2

(* --------------------------- JsonType enum ---------------------------- *)
Null == 0
Boolean == 1
Integer == 2
Number == 3
String == 4
Array == 5
Object == 6
\* tag of a heap cell that holds no node
Free == 0 - 1

(* ----------------------------- int range ------------------------------ *)
RECURSIVE Pow2(_)
Pow2(n) == IF n = 0 THEN 1 ELSE 2 * Pow2(n - 1)
INT_MAX == Pow2(IntBits - 1) - 1
INT_MIN == 0 - Pow2(IntBits - 1)
\* the value a two's complement `int` holds after an overflowing operation
WrapInt(x) == ((x + Pow2(IntBits - 1)) % Pow2(IntBits)) - Pow2(IntBits - 1)

(* ----------------------- inputs of the operations --------------------- *)
Handles == {"a", "b"}
\* the cells of the three static instances, then the cells make_shared uses
NullCell == 1
TrueCell == 2
FalseCell == 3
NodeIds == 1..(3 + MaxNodes)
StaticIds == {NullCell, TrueCell, FalseCell}
\* std::string payloads and keys: sequences of character codes
StrA == <<1>>
StrAB == <<1, 2>>
StrC == <<3>>
Keys == {StrA, StrC}
Strings == {StrA, StrAB, StrC}
Ints == {INT_MIN, 0 - 1, 1, INT_MAX}
\* the doubles 0.0 and 1.0
Doubles == {0, 1}
Indexes == (0 - 1)..MaxEdges

\* a literal argument: the kind of the C++ argument and its value
Lit(t, b, i, n, s) == [type |-> t, b |-> b, i |-> i, n |-> n, s |-> s]
NullLit == Lit(Null, FALSE, 0, 0, <<>>)
BoolLits == {Lit(Boolean, b, 0, 0, <<>>) : b \in BOOLEAN}
IntLits == {Lit(Integer, FALSE, i, 0, <<>>) : i \in Ints}
NumLits == {Lit(Number, FALSE, 0, n, <<>>) : n \in Doubles}
StrLits == {Lit(String, FALSE, 0, 0, s) : s \in Strings}
ScalarLits == {NullLit} \cup BoolLits \cup IntLits \cup NumLits \cup StrLits

(* ------------------------------- nodes -------------------------------- *)
NoKeys == [k \in Keys |-> 0]
NodeRec(t, b, i, n, s, arr, obj) ==
    [type |-> t, b |-> b, i |-> i, n |-> n, s |-> s, arr |-> arr, obj |-> obj]
FreeCell == NodeRec(Free, FALSE, 0, 0, <<>>, <<>>, NoKeys)
NullNode == NodeRec(Null, FALSE, 0, 0, <<>>, <<>>, NoKeys)
BooleanNode(val) == NodeRec(Boolean, val, 0, 0, <<>>, <<>>, NoKeys)
IntegerNode(val) == NodeRec(Integer, FALSE, val, 0, <<>>, <<>>, NoKeys)
NumberNode(val) == NodeRec(Number, FALSE, 0, val, <<>>, <<>>, NoKeys)
StringNode(val) == NodeRec(String, FALSE, 0, 0, val, <<>>, NoKeys)
ArrayNode == NodeRec(Array, FALSE, 0, 0, <<>>, <<>>, NoKeys)
ObjectNode == NodeRec(Object, FALSE, 0, 0, <<>>, <<>>, NoKeys)

VARIABLES
    heap,     \* NodeIds -> node: the nodes alive, FreeCell elsewhere
    d,        \* Handles -> node id: Json::d of the program's named handles
    statics,  \* the function-local static instances (0: not yet initialised)
    ret       \* the last operation and what it returned

vars == <<heap, d, statics, ret>>

(* --------------------- unspecified behaviour ------------------------- *)
\* intOverflow: `lhs - rhs` on int overflows (undefined behaviour): the build
\*   either wraps the difference or, having assumed no overflow, compares the
\*   operands themselves.
\* strCompare: std::string::compare is only specified up to the sign of its
\*   result: the library returns either +-1 or the difference it computed.
Builds == [intOverflow : {"wrap", "exact"}, strCompare : {"unit", "diff"}]

(* ------------------------- reading the heap --------------------------- *)
type(hp, n) == hp[n].type
isArray(hp, n) == type(hp, n) = Array
isObject(hp, n) == type(hp, n) = Object
length(hp, n) == Len(hp[n].arr)
PresentKeys(hp, n) == {k \in Keys : hp[n].obj[k] # 0}
\* the handles a node owns: the elements of an array, the values of an object
Children(hp, n) ==
    IF type(hp, n) = Array THEN {hp[n].arr[i] : i \in 1..Len(hp[n].arr)}
    ELSE IF type(hp, n) = Object THEN {hp[n].obj[k] : k \in PresentKeys(hp, n)}
    ELSE {}

RECURSIVE ReachFrom(_, _)
ReachFrom(hp, S) ==
    LET T == S \cup UNION {Children(hp, n) : n \in S}
    IN  IF T = S THEN S ELSE ReachFrom(hp, T)

StaticRoots(st) == {st.null, st.true, st.false} \ {0}

\* shared_ptr ownership: a node dies with the last handle that refers to it
Release(hp, hd, st) ==
    LET live == ReachFrom(hp, {hd[h] : h \in Handles} \cup StaticRoots(st))
    IN  [n \in DOMAIN hp |-> IF n \in live THEN hp[n] ELSE FreeCell]

RECURSIVE SumOver(_, _)
SumOver(f, S) ==
    IF S = {} THEN 0
    ELSE LET x == CHOOSE y \in S : TRUE IN f[x] + SumOver(f, S \ {x})
\* the handles held by the containers alive
Edges(hp) ==
    SumOver([n \in DOMAIN hp |->
               IF type(hp, n) = Array THEN Len(hp[n].arr)
               ELSE IF type(hp, n) = Object THEN Cardinality(PresentKeys(hp, n))
               ELSE 0], DOMAIN hp)
CanGrow(hp) == Edges(hp) < MaxEdges

FreeIds(hp) == {n \in (DOMAIN hp) \ StaticIds : hp[n].type = Free}
CanAlloc(hp) == FreeIds(hp) # {}
NewId(hp) == CHOOSE n \in FreeIds(hp) : \A m \in FreeIds(hp) : n <= m
\* std::make_shared<T>(...): a new node in a cell no live node occupies
make_shared(hp, node) == [hp |-> [hp EXCEPT ![NewId(hp)] = node], id |-> NewId(hp)]

(* ------------------------------ compare ------------------------------- *)
Sign(x) == IF 0 < x THEN 1 ELSE IF x < 0 THEN 0 - 1 ELSE 0
Min(x, y) == IF x <= y THEN x ELSE y

\* std::char_traits<char>::compare over the first n characters, from i on
RECURSIVE traits_compare(_, _, _, _, _)
traits_compare(bd, s, t, i, n) ==
    IF i > n THEN 0
    ELSE IF s[i] # t[i]
         THEN IF bd.strCompare = "diff" THEN s[i] - t[i] ELSE Sign(s[i] - t[i])
         ELSE traits_compare(bd, s, t, i + 1, n)

\* std::string::compare
string_compare(bd, s, t) ==
    LET r == traits_compare(bd, s, t, 1, Min(Len(s), Len(t)))
    IN  IF r # 0 THEN r
        ELSE IF bd.strCompare = "diff" THEN Len(s) - Len(t) ELSE Sign(Len(s) - Len(t))

\* std::less<std::string>, the order of std::map's keys
StrLess(s, t) ==
    \E i \in 1..(Min(Len(s), Len(t)) + 1) :
        /\ \A j \in 1..(i - 1) : s[j] = t[j]
        /\ IF i <= Min(Len(s), Len(t)) THEN s[i] < t[i] ELSE Len(s) < Len(t)

\* the keys of a std::map in iteration order
RECURSIVE KeySeq(_)
KeySeq(S) ==
    IF S = {} THEN <<>>
    ELSE LET k == CHOOSE x \in S : \A y \in S \ {x} : StrLess(x, y)
         IN  <<k>> \o KeySeq(S \ {k})

int_compare(bd, lhs, rhs) ==
    LET diff == IF bd.intOverflow = "wrap" THEN WrapInt(lhs - rhs) ELSE lhs - rhs
    IN  (IF 0 < diff THEN 1 ELSE 0) - (IF diff < 0 THEN 1 ELSE 0)

double_compare(lhs, rhs) ==
    LET diff == lhs - rhs
    IN  (IF 0 < diff THEN 1 ELSE 0) - (IF diff < 0 THEN 1 ELSE 0)

BoolInt(b) == IF b THEN 1 ELSE 0

\* faulty variant: a view that does not look at the kind
ArrayViewUnchecked(hp, st, n) == n

\* Array::Array(impl) / Object::Object(obj): the node itself when its kind
\* matches, the Null instance otherwise
ArrayView(hp, st, n) == IF type(hp, n) = Array THEN n ELSE st.null
ObjectView(hp, st, n) == IF type(hp, n) = Object THEN n ELSE st.null

RECURSIVE compare(_, _, _, _, _)
RECURSIVE array_loop(_, _, _, _, _, _)
RECURSIVE object_loop(_, _, _, _, _, _, _, _)

array_loop(hp, st, bd, lhs, rhs, i) ==
    IF ~(i < length(hp, lhs)) THEN 0
    ELSE LET c == compare(hp, st, bd, hp[lhs].arr[i + 1], hp[rhs].arr[i + 1])
         IN  IF c # 0 THEN c ELSE array_loop(hp, st, bd, lhs, rhs, i + 1)

\* faulty variant: the elements are compared before the sizes
array_compare_content_first(hp, st, bd, lhs, rhs) ==
    LET size_diff == length(hp, lhs) - length(hp, rhs)
        n == Min(length(hp, lhs), length(hp, rhs))
        nz == {i \in 1..n : compare(hp, st, bd, hp[lhs].arr[i], hp[rhs].arr[i]) # 0}
    IN  IF nz # {}
        THEN LET i == CHOOSE k \in nz : \A j \in nz : k <= j
             IN  compare(hp, st, bd, hp[lhs].arr[i], hp[rhs].arr[i])
        ELSE (IF 0 < size_diff THEN 1 ELSE 0) - (IF size_diff < 0 THEN 1 ELSE 0)

array_compare(hp, st, bd, lhs, rhs) ==
    LET size_diff == length(hp, lhs) - length(hp, rhs)
    IN  IF size_diff # 0
        THEN (IF 0 < size_diff THEN 1 ELSE 0) - (IF size_diff < 0 THEN 1 ELSE 0)
        ELSE array_loop(hp, st, bd, lhs, rhs, 0)

object_loop(hp, st, bd, lhs, rhs, lks, rks, i) ==
    IF i > Len(lks) THEN 0
    ELSE LET c == string_compare(bd, lks[i], rks[i])
         IN  IF c # 0 THEN c
             ELSE LET c2 == compare(hp, st, bd, hp[lhs].obj[lks[i]], hp[rhs].obj[rks[i]])
                  IN  IF c2 # 0 THEN c2
                      ELSE object_loop(hp, st, bd, lhs, rhs, lks, rks, i + 1)

object_compare(hp, st, bd, lhs, rhs) ==
    LET size_diff == Cardinality(PresentKeys(hp, lhs)) - Cardinality(PresentKeys(hp, rhs))
    IN  IF size_diff # 0
        THEN (IF 0 < size_diff THEN 1 ELSE 0) - (IF size_diff < 0 THEN 1 ELSE 0)
        ELSE object_loop(hp, st, bd, lhs, rhs, KeySeq(PresentKeys(hp, lhs)),
                         KeySeq(PresentKeys(hp, rhs)), 1)

compare(hp, st, bd, lhs, rhs) ==
    LET type_diff == type(hp, lhs) - type(hp, rhs)
    IN  IF type_diff # 0
        THEN (IF 0 < type_diff THEN 1 ELSE 0) - (IF type_diff < 0 THEN 1 ELSE 0)
        ELSE CASE type(hp, lhs) = Null -> 0
               [] type(hp, lhs) = Boolean -> BoolInt(hp[lhs].b) - BoolInt(hp[rhs].b)
               [] type(hp, lhs) = Integer -> int_compare(bd, hp[lhs].i, hp[rhs].i)
               [] type(hp, lhs) = Number -> double_compare(hp[lhs].n, hp[rhs].n)
               [] type(hp, lhs) = String -> string_compare(bd, hp[lhs].s, hp[rhs].s)
               [] type(hp, lhs) = Array ->
                    array_compare(hp, st, bd, ArrayView(hp, st, lhs), ArrayView(hp, st, rhs))
               [] type(hp, lhs) = Object ->
                    object_compare(hp, st, bd, ObjectView(hp, st, lhs), ObjectView(hp, st, rhs))

\* faulty variant: equality of the pointers alone
equals_identity(hp, st, bd, lhs, rhs) == lhs = rhs

\* operator==(const Json&, const Json&)
equals(hp, st, bd, lhs, rhs) ==
    IF lhs = rhs THEN TRUE
    ELSE IF type(hp, lhs) # type(hp, rhs) THEN FALSE
    ELSE compare(hp, st, bd, lhs, rhs) = 0

(* ----------------------------- construction --------------------------- *)
LitNode(lit) ==
    CASE lit.type = Boolean -> BooleanNode(lit.b)
      [] lit.type = Integer -> IntegerNode(lit.i)
      [] lit.type = Number -> NumberNode(lit.n)
      [] lit.type = String -> StringNode(lit.s)
      [] OTHER -> NullNode

\* Json::Json(nullptr_t / bool / int / double / string): the node of a handle
\* constructed from a literal
JsonCtor(hp, st, lit) ==
    IF lit.type = Null THEN [hp |-> hp, id |-> st.null]
    ELSE make_shared(hp, LitNode(lit))
CtorNeedsCell(lit) == lit.type # Null

\* BooleanNode::True() / BooleanNode::False(): the function-local static
\* instance, made on the first call
BooleanStatic(hp, st, val) ==
    LET name == IF val THEN "true" ELSE "false"
        cell == IF val THEN TrueCell ELSE FalseCell
    IN  IF st[name] # 0 THEN [hp |-> hp, st |-> st, id |-> st[name]]
        ELSE [hp |-> [hp EXCEPT ![cell] = BooleanNode(val)],
              st |-> [st EXCEPT ![name] = cell], id |-> cell]

\* Json::operator=(nullptr_t / bool / int / double / string): the node the
\* assigned handle is rebound to
AssignedNode(hp, st, lit) ==
    IF lit.type = Null THEN [hp |-> hp, st |-> st, id |-> st.null]
    ELSE IF lit.type = Boolean THEN BooleanStatic(hp, st, lit.b)
    ELSE LET m == make_shared(hp, LitNode(lit))
         IN  [hp |-> m.hp, st |-> st, id |-> m.id]
AssignNeedsCell(lit) == lit.type \notin {Null, Boolean}

(* ------------------------- what an operation returns ------------------ *)
\* op: the operation; hit: the index or key it was given lies in the
\* container (a view: the kind matched; push, assign: the handle it was
\* called on had an alias among the named handles); status: how it ended;
\* node: the node of the
\* handle it returned (0: none); val: the number it returned
Ret(op, hit, status, node, val) ==
    [op |-> op, hit |-> hit, status |-> status, node |-> node, val |-> val]
\* nothing worth recording: a constructor, a copy
Void == Ret("", TRUE, "ok", 0, 0)

(* -------------------------------- Init -------------------------------- *)
\* `static const Json null` has initialised the Null instance; the program's
\* two handles are default-constructed (empty Objects)
Init ==
    /\ heap = [n \in NodeIds |->
                 IF n = NullCell THEN NullNode
                 ELSE IF n \in {4, 5} THEN ObjectNode ELSE FreeCell]
    /\ d = [h \in Handles |-> IF h = "a" THEN 4 ELSE 5]
    /\ statics = [null |-> NullCell, true |-> 0, false |-> 0]
    /\ ret = Void

(* ------------------------------ operations ---------------------------- *)
\* h = Json()
DefaultConstruct(h) ==
    /\ CanAlloc(heap)
    /\ LET m == make_shared(heap, ObjectNode)
           nd == [d EXCEPT ![h] = m.id]
       IN  /\ d' = nd
           /\ heap' = Release(m.hp, nd, statics)
    /\ ret' = Void
    /\ UNCHANGED statics

\* h = Array()
ArrayConstruct(h) ==
    /\ CanAlloc(heap)
    /\ LET m == make_shared(heap, ArrayNode)
           nd == [d EXCEPT ![h] = m.id]
       IN  /\ d' = nd
           /\ heap' = Release(m.hp, nd, statics)
    /\ ret' = Void
    /\ UNCHANGED statics

\* h = Json(lit)
Construct(h, lit) ==
    /\ CtorNeedsCell(lit) => CanAlloc(heap)
    /\ LET m == JsonCtor(heap, statics, lit)
           nd == [d EXCEPT ![h] = m.id]
       IN  /\ d' = nd
           /\ heap' = Release(m.hp, nd, statics)
    /\ ret' = Void
    /\ UNCHANGED statics

\* h = g
CopyAssign(h, g) ==
    /\ h # g
    /\ d' = [d EXCEPT ![h] = d[g]]
    /\ heap' = Release(heap, d', statics)
    /\ ret' = Void
    /\ UNCHANGED statics

\* faulty variant: the scalar is written into the node the handle shares
AssignScalarInPlace(h, lit) ==
    /\ d[h] \notin StaticIds
    /\ heap' = Release([heap EXCEPT ![d[h]] =
                          IF lit.type = Null THEN NullNode ELSE LitNode(lit)], d, statics)
    /\ ret' = Ret("assign", \E b \in Handles \ {h} : d[b] = d[h], "ok", 0, 0)
    /\ UNCHANGED <<d, statics>>

\* h = lit
AssignScalar(h, lit) ==
    /\ AssignNeedsCell(lit) => CanAlloc(heap)
    /\ LET m == AssignedNode(heap, statics, lit)
           nd == [d EXCEPT ![h] = m.id]
       IN  /\ d' = nd
           /\ statics' = m.st
           /\ heap' = Release(m.hp, nd, m.st)
    /\ ret' = Ret("assign", \E b \in Handles \ {h} : d[b] = d[h], "ok", 0, 0)

\* no handle reachable from node `src` refers to node `n`: storing src in n
\* keeps the graph a tree (cycles are the caller's to avoid)
NoCycle(hp, n, src) == n \notin ReachFrom(hp, {src})

\* h.push(g)
Push(h, g) ==
    /\ isArray(heap, d[h])
    /\ CanGrow(heap)
    /\ NoCycle(heap, d[h], d[g])
    /\ heap' = [heap EXCEPT ![d[h]].arr = Append(@, d[g])]
    /\ ret' = Ret("push", \E b \in Handles \ {h} : d[b] = d[h], "ok", 0, 0)
    /\ UNCHANGED <<d, statics>>

\* faulty variant: push on a private copy of the array
PushLitDetached(h, lit) ==
    /\ isArray(heap, d[h])
    /\ CanGrow(heap)
    /\ CtorNeedsCell(lit) => CanAlloc(heap)
    /\ LET m == JsonCtor(heap, statics, lit)
           c == [ArrayNode EXCEPT !.arr = Append(heap[d[h]].arr, m.id)]
       IN  /\ CanAlloc(m.hp)
           /\ LET n == make_shared(m.hp, c)
                  nd == [d EXCEPT ![h] = n.id]
              IN  /\ d' = nd
                  /\ heap' = Release(n.hp, nd, statics)
    /\ ret' = Ret("push", \E b \in Handles \ {h} : d[b] = d[h], "ok", 0, 0)
    /\ UNCHANGED statics

\* h.push(lit): the argument is a temporary Json(lit)
PushLit(h, lit) ==
    /\ isArray(heap, d[h])
    /\ CanGrow(heap)
    /\ CtorNeedsCell(lit) => CanAlloc(heap)
    /\ LET m == JsonCtor(heap, statics, lit)
       IN  /\ heap' = Release([m.hp EXCEPT ![d[h]].arr = Append(@, m.id)], d, statics)
           /\ ret' = Ret("push", \E b \in Handles \ {h} : d[b] = d[h], "ok", 0, 0)
    /\ UNCHANGED <<d, statics>>

\* h.at(i)
At(h, i) ==
    /\ isArray(heap, d[h])
    /\ ret' = IF 0 <= i /\ i < length(heap, d[h])
              THEN Ret("at", TRUE, "ok", heap[d[h]].arr[i + 1], 0)
              ELSE Ret("at", FALSE, "out_of_range", 0, 0)
    /\ UNCHANGED <<heap, d, statics>>

\* h[i], read: std::vector::operator[] does not check the index; outside the
\* array the behaviour is undefined: the program dies, or goes on with
\* whatever the memory behind the elements holds (an indeterminate handle,
\* node 0)
Index(h, i) ==
    /\ isArray(heap, d[h])
    /\ IF 0 <= i /\ i < length(heap, d[h])
       THEN ret' = Ret("index", TRUE, "ok", heap[d[h]].arr[i + 1], 0)
       ELSE \E outcome \in {"crash", "garbage"} :
                 ret' = Ret("index", FALSE, outcome, 0, 0)
    /\ UNCHANGED <<heap, d, statics>>

\* h[i] = lit, within the array
IndexAssign(h, i, lit) ==
    /\ isArray(heap, d[h])
    /\ 0 <= i /\ i < length(heap, d[h])
    /\ AssignNeedsCell(lit) => CanAlloc(heap)
    /\ LET m == AssignedNode(heap, statics, lit)
       IN  /\ statics' = m.st
           /\ heap' = Release([m.hp EXCEPT ![d[h]].arr[i + 1] = m.id], d, m.st)
    /\ ret' = Ret("index_assign", \E b \in Handles : d[b] = heap[d[h]].arr[i + 1], "ok", 0, 0)
    /\ UNCHANGED d

\* std::map::operator[]: the entry of `key`, inserted with a
\* default-constructed Json (an empty Object) when the key is absent
MapIndex(hp, n, key) ==
    IF hp[n].obj[key] # 0 THEN [hp |-> hp, id |-> hp[n].obj[key]]
    ELSE LET m == make_shared(hp, ObjectNode)
         IN  [hp |-> [m.hp EXCEPT ![n].obj[key] = m.id], id |-> m.id]

\* faulty variant: the const lookup goes through std::map::operator[]
LookupInserting(h, key) ==
    /\ isObject(heap, d[h])
    /\ heap[d[h]].obj[key] = 0 => CanAlloc(heap) /\ CanGrow(heap)
    /\ LET m == MapIndex(heap, d[h], key)
       IN  /\ heap' = m.hp
           /\ ret' = Ret("lookup", heap[d[h]].obj[key] # 0, "ok", m.id, 0)
    /\ UNCHANGED <<d, statics>>

\* h[key] on a const handle
Lookup(h, key) ==
    /\ isObject(heap, d[h])
    /\ ret' = IF heap[d[h]].obj[key] # 0
              THEN Ret("lookup", TRUE, "ok", heap[d[h]].obj[key], 0)
              ELSE Ret("lookup", FALSE, "ok", statics.null, 0)
    /\ UNCHANGED <<heap, d, statics>>

\* h[key] on a non-const handle, read
KeyIndex(h, key) ==
    /\ isObject(heap, d[h])
    /\ heap[d[h]].obj[key] = 0 => CanAlloc(heap) /\ CanGrow(heap)
    /\ LET m == MapIndex(heap, d[h], key)
       IN  /\ heap' = m.hp
           /\ ret' = Ret("key_index", heap[d[h]].obj[key] # 0, "ok", m.id, 0)
    /\ UNCHANGED <<d, statics>>

\* h[key] = lit
KeyAssign(h, key, lit) ==
    /\ isObject(heap, d[h])
    /\ heap[d[h]].obj[key] = 0 => CanAlloc(heap) /\ CanGrow(heap)
    /\ LET e == MapIndex(heap, d[h], key)
       IN  /\ AssignNeedsCell(lit) => CanAlloc(e.hp)
           /\ LET m == AssignedNode(e.hp, statics, lit)
              IN  /\ statics' = m.st
                  /\ heap' = Release([m.hp EXCEPT ![d[h]].obj[key] = m.id], d, m.st)
    /\ ret' = Ret("key_assign", \E b \in Handles : d[b] = heap[d[h]].obj[key], "ok", 0, 0)
    /\ UNCHANGED d

\* h[key] = g
KeySet(h, key, g) ==
    /\ isObject(heap, d[h])
    /\ NoCycle(heap, d[h], d[g])
    /\ heap[d[h]].obj[key] = 0 => CanAlloc(heap) /\ CanGrow(heap)
    /\ LET e == MapIndex(heap, d[h], key)
       IN  heap' = Release([e.hp EXCEPT ![d[h]].obj[key] = d[g]], d, statics)
    /\ ret' = Void
    /\ UNCHANGED <<d, statics>>

\* g = h.toArray()
ToArray(h, g) ==
    /\ d' = [d EXCEPT ![g] = ArrayView(heap, statics, d[h])]
    /\ heap' = Release(heap, d', statics)
    /\ ret' = Ret("toArray", isArray(heap, d[h]), "ok", d'[g], 0)
    /\ UNCHANGED statics

\* g = h.toObject()
ToObject(h, g) ==
    /\ d' = [d EXCEPT ![g] = ObjectView(heap, statics, d[h])]
    /\ heap' = Release(heap, d', statics)
    /\ ret' = Ret("toObject", isObject(heap, d[h]), "ok", d'[g], 0)
    /\ UNCHANGED statics

\* json::compare(h, g)
Compare(h, g, bd) ==
    /\ ret' = Ret("compare", TRUE, "ok", 0, compare(heap, statics, bd, d[h], d[g]))
    /\ UNCHANGED <<heap, d, statics>>

\* h == g
Equals(h, g, bd) ==
    /\ ret' = Ret("equals", TRUE, "ok", 0, BoolInt(equals(heap, statics, bd, d[h], d[g])))
    /\ UNCHANGED <<heap, d, statics>>

\* the literals the modelled program passes
ProgLits == {NullLit, Lit(Boolean, TRUE, 0, 0, <<>>), Lit(String, FALSE, 0, 0, StrA)}

Next ==
    \/ \E h \in Handles : DefaultConstruct(h)
    \/ \E h \in Handles : ArrayConstruct(h)
    \/ \E h \in Handles, lit \in ProgLits : Construct(h, lit)
    \/ \E h, g \in Handles : CopyAssign(h, g)
    \/ \E h \in Handles, lit \in ProgLits : AssignScalar(h, lit)
    \/ \E h, g \in Handles : Push(h, g)
    \/ \E h \in Handles, lit \in ProgLits : PushLit(h, lit)
    \/ \E h \in Handles, i \in Indexes : At(h, i)
    \/ \E h \in Handles, i \in Indexes : Index(h, i)
    \/ \E h \in Handles, i \in Indexes, lit \in ProgLits : IndexAssign(h, i, lit)
    \/ \E h \in Handles, key \in Keys : Lookup(h, key)
    \/ \E h \in Handles, key \in Keys : KeyIndex(h, key)
    \/ \E h \in Handles, key \in Keys, lit \in ProgLits : KeyAssign(h, key, lit)
    \/ \E h, g \in Handles, key \in Keys : KeySet(h, key, g)
    \/ \E h, g \in Handles : ToArray(h, g)
    \/ \E h, g \in Handles : ToObject(h, g)

Spec == Init /\ [][Next]_vars

(* ------------------- the values compare is applied to ------------------ *)
\* An element of a container: the literal `lit`, or (wrap) the array [lit].
Elem(lit, wrap) == [lit |-> lit, wrap |-> wrap]
NoElem == Elem(Lit(Free, FALSE, 0, 0, <<>>), FALSE)
ElemLits == {Lit(Integer, FALSE, i, 0, <<>>) : i \in {0 - 1, 1, INT_MAX}}
ElemVals ==
    {Elem(l, FALSE) : l \in ElemLits} \cup {Elem(Lit(Integer, FALSE, 1, 0, <<>>), TRUE)}

\* A value: a scalar literal, an array of elements, or an object of entries
\* (NoElem: the key is absent).
Val(kind, lit, elems, entries) ==
    [kind |-> kind, lit |-> lit, elems |-> elems, entries |-> entries]
NoEntries == [k \in Keys |-> NoElem]
SeqsUpTo(S, n) == UNION {[1..m -> S] : m \in 0..n}
Values ==
    {Val("lit", l, <<>>, NoEntries) : l \in ScalarLits}
    \cup {Val("array", NullLit, es, NoEntries) : es \in SeqsUpTo(ElemVals, MaxElems)}
    \cup {Val("object", NullLit, <<>>, en) : en \in [Keys -> ElemVals \cup {NoElem}]}

\* Json(lit), or Array() followed by push(lit)
BuildElem(hp, st, e) ==
    LET m == JsonCtor(hp, st, e.lit)
    IN  IF e.wrap THEN make_shared(m.hp, [ArrayNode EXCEPT !.arr = <<m.id>>]) ELSE m

\* n.push(elems[i]); n.push(elems[i + 1]); ...
RECURSIVE BuildArray(_, _, _, _, _)
BuildArray(hp, st, n, elems, i) ==
    IF i > Len(elems) THEN hp
    ELSE LET m == BuildElem(hp, st, elems[i])
         IN  BuildArray([m.hp EXCEPT ![n].arr = Append(@, m.id)], st, n, elems, i + 1)

\* n[ks[i]] = entries[ks[i]]; ...
RECURSIVE BuildObject(_, _, _, _, _, _)
BuildObject(hp, st, n, entries, ks, i) ==
    IF i > Len(ks) THEN hp
    ELSE LET m == BuildElem(hp, st, entries[ks[i]])
         IN  BuildObject([m.hp EXCEPT ![n].obj[ks[i]] = m.id], st, n, entries, ks, i + 1)

\* the heap after the program has built the value v; id: its node
BuildValue(hp, st, v) ==
    IF v.kind = "lit" THEN JsonCtor(hp, st, v.lit)
    ELSE IF v.kind = "array"
    THEN LET m == make_shared(hp, ArrayNode)
         IN  [hp |-> BuildArray(m.hp, st, m.id, v.elems, 1), id |-> m.id]
    ELSE LET m == make_shared(hp, ObjectNode)
         IN  [hp |-> BuildObject(m.hp, st, m.id, v.entries,
                                 KeySeq({k \in Keys : v.entries[k] # NoElem}), 1),
              id |-> m.id]

\* cells enough for two values
CmpNodeIds == 1..(3 + 2 * (1 + 2 * MaxElems))

\* the program has built two values and holds them in a and b
InitCmp ==
    \E va \in Values, vb \in Values :
        LET st0 == [null |-> NullCell, true |-> 0, false |-> 0]
            h0 == [n \in CmpNodeIds |-> IF n = NullCell THEN NullNode ELSE FreeCell]
            A == BuildValue(h0, st0, va)
            B == BuildValue(A.hp, st0, vb)
        IN  /\ heap = B.hp
            /\ d = [h \in Handles |-> IF h = "a" THEN A.id ELSE B.id]
            /\ statics = st0
            /\ ret = Void

NextCmp ==
    \/ \E h, g \in Handles, bd \in Builds : Compare(h, g, bd)
    \/ \E h, g \in Handles, bd \in Builds : Equals(h, g, bd)
    \/ \E h, g \in Handles : CopyAssign(h, g)

SpecCmp == InitCmp /\ [][NextCmp]_vars

(* ============================== claims ================================ *)
LiveNodes(hp) == {n \in DOMAIN hp : type(hp, n) # Free}
Aliases(h) == {b \in Handles : d[b] = d[h]}
\* the node a handle constructed from `lit` refers to
IsLitNode(hp, n, lit) == hp[n] = (IF lit.type = Null THEN NullNode ELSE LitNode(lit))

\* C1: a push through one handle is seen through every alias of its node: the
\* array is one longer, its last element is the value pushed, and the elements
\* it had are the same handles to the same, unmodified nodes.
PushSeenByEveryAlias ==
    [][ret'.op = "push" => \A h \in Handles :
         LET old == heap[d[h]].arr
             Post(b) ==
                 /\ d'[b] = d'[h]
                 /\ length(heap', d'[b]) = Len(old) + 1
                 /\ \A i \in 1..Len(old) :
                      /\ heap'[d'[b]].arr[i] = old[i]
                      /\ heap'[old[i]] = heap[old[i]]
         IN  /\ \A g \in Handles :
                  Push(h, g) =>
                    \A b \in Aliases(h) :
                      Post(b) /\ heap'[d'[b]].arr[Len(old) + 1] = d[g]
             /\ \A lit \in ProgLits :
                  PushLit(h, lit) =>
                    \A b \in Aliases(h) :
                      Post(b) /\ IsLitNode(heap', heap'[d'[b]].arr[Len(old) + 1], lit)
      ]_vars

\* a push on an aliased array that already held an element
PushSeenWitness ==
    /\ ret.op = "push" /\ ret.hit
    /\ d["a"] = d["b"]
    /\ isArray(heap, d["a"]) /\ length(heap, d["a"]) = 2

\* C2: assigning a scalar to a handle (a named one, or an element of a
\* container) rebinds that handle alone: every other handle refers to the node
\* it referred to, and that node and all it holds are unmodified.
ScalarAssignRebindsOneHandle ==
    [][ret'.op \in {"assign", "index_assign", "key_assign"} =>
       \A h \in Handles, lit \in ProgLits :
         LET Kept(n) == \A m \in ReachFrom(heap, {n}) : heap'[m] = heap[m]
         IN  /\ (ret'.op = "assign" /\ AssignScalar(h, lit)) =>
                  \A b \in Handles \ {h} : d'[b] = d[b] /\ Kept(d[b])
             /\ \A i \in Indexes :
                  (ret'.op = "index_assign" /\ IndexAssign(h, i, lit)) =>
                    /\ \A b \in Handles : d'[b] = d[b]
                    /\ \A b \in Handles : d[b] = heap[d[h]].arr[i + 1] => Kept(d[b])
                    /\ \A j \in 1..length(heap, d[h]) :
                         j # i + 1 => heap'[d[h]].arr[j] = heap[d[h]].arr[j]
             /\ \A key \in Keys :
                  (ret'.op = "key_assign" /\ KeyAssign(h, key, lit)
                     /\ heap[d[h]].obj[key] # 0) =>
                    /\ \A b \in Handles : d'[b] = d[b]
                    /\ \A b \in Handles : d[b] = heap[d[h]].obj[key] => Kept(d[b])
                    /\ \A k \in Keys \ {key} : heap'[d[h]].obj[k] = heap[d[h]].obj[k]
      ]_vars

\* a handle that had an alias was assigned a scalar; the alias still holds
\* the array with its element
ScalarAssignWitness ==
    /\ ret.op = "assign" /\ ret.hit
    /\ type(heap, d["a"]) = String
    /\ isArray(heap, d["b"]) /\ length(heap, d["b"]) = 1

\* C3: one Null node, and one Boolean node per truth value
CanonicalSingletons ==
    \A m, n \in LiveNodes(heap) :
        /\ (type(heap, m) = Null /\ type(heap, n) = Null) => m = n
        /\ (type(heap, m) = Boolean /\ type(heap, n) = Boolean
              /\ heap[m].b = heap[n].b) => m = n

\* C4: compare is a total order, ints over their whole range included
CompareTotalOrder ==
    \A bd \in Builds :
        \A x, y \in LiveNodes(heap) :
            /\ compare(heap, statics, bd, x, x) = 0
            /\ Sign(compare(heap, statics, bd, x, y))
                 = 0 - Sign(compare(heap, statics, bd, y, x))
            /\ \A z \in LiveNodes(heap) :
                 (compare(heap, statics, bd, x, y) <= 0
                    /\ compare(heap, statics, bd, y, z) <= 0)
                 => compare(heap, statics, bd, x, z) <= 0

\* C5: compare returns -1, 0 or +1 and nothing else
CompareReturnsSign == ret.op = "compare" => ret.val \in {0 - 1, 0, 1}

\* C6: at(index) and operator[](index) outside the array both end with the
\* out-of-range error
OutOfRangeAlwaysReported ==
    (ret.op \in {"at", "index"} /\ ~ret.hit) =>
        (ret.status = "out_of_range" /\ ret.node = 0)

\* C7 (as claimed): a keyed read of an absent key, by the const lookup or by
\* operator[] on a non-const handle, returns a Null value and leaves the keys
\* of every object handle as they were.
MissingKeyReadsNull ==
    [][ret'.op \in {"lookup", "key_index"} =>
       \A h \in Handles, key \in Keys :
         ((Lookup(h, key) \/ KeyIndex(h, key)) /\ heap[d[h]].obj[key] = 0) =>
            /\ ret'.status = "ok"
            /\ type(heap', ret'.node) = Null
            /\ \A b \in Handles :
                 isObject(heap, d[b]) =>
                   d'[b] = d[b] /\ PresentKeys(heap', d'[b]) = PresentKeys(heap, d[b])
      ]_vars

\* C7 (amended): the const lookup of an absent key returns the Null instance
\* and changes nothing; operator[] on a non-const handle inserts the absent
\* key, bound to a new empty Object, and returns that entry, leaving the other
\* keys and every handle as they were.
ConstLookupOfMissingKeyReadsNull ==
    [][ret'.op \in {"lookup", "key_index"} =>
       \A h \in Handles, key \in Keys :
         /\ (Lookup(h, key) /\ heap[d[h]].obj[key] = 0) =>
              /\ ret'.status = "ok"
              /\ ret'.node = statics.null /\ type(heap', ret'.node) = Null
              /\ heap' = heap /\ d' = d /\ statics' = statics
         /\ (ret'.op = "key_index" /\ KeyIndex(h, key) /\ heap[d[h]].obj[key] = 0) =>
              /\ ret'.status = "ok"
              /\ type(heap, ret'.node) = Free
              /\ heap'[ret'.node] = ObjectNode
              /\ heap'[d[h]].obj[key] = ret'.node
              /\ \A k \in Keys \ {key} : heap'[d[h]].obj[k] = heap[d[h]].obj[k]
              /\ \A b \in Aliases(h) :
                   PresentKeys(heap', d'[b]) = PresentKeys(heap, d[b]) \cup {key}
              /\ d' = d
      ]_vars

\* the const lookup missed on an aliased object that holds another key
MissingKeyWitness ==
    /\ ret.op = "lookup" /\ ~ret.hit
    /\ type(heap, ret.node) = Null
    /\ d["a"] = d["b"]
    /\ isObject(heap, d["a"]) /\ Cardinality(PresentKeys(heap, d["a"])) = 1

\* C8: toArray() / toObject() always yield a handle to a live node; the view is the handle's
\* own node when the kind matches and the Null instance otherwise; the handle
\* converted and its node stay as they were and no node is modified; a push
\* through a handle is seen through the handles that share its node.
ViewAliasesOrNull ==
    /\ [](\A h \in Handles :
             /\ ArrayView(heap, statics, d[h]) \in LiveNodes(heap)
             /\ ObjectView(heap, statics, d[h]) \in LiveNodes(heap))
    /\ [][ret'.op \in {"toArray", "toObject", "push"} =>
          \A h, g \in Handles :
            LET Post(kind) ==
                    /\ IF type(heap, d[h]) = kind
                       THEN d'[g] = d[h] /\ type(heap', d'[g]) = kind
                       ELSE d'[g] = NullCell /\ type(heap', d'[g]) = Null
                    /\ ret'.node = d'[g]
                    /\ g # h => (d'[h] = d[h] /\ heap'[d[h]] = heap[d[h]])
                    /\ \A n \in DOMAIN heap : heap'[n] = heap[n] \/ heap'[n] = FreeCell
            IN  /\ (ret'.op = "toArray" /\ ToArray(h, g)) => Post(Array)
                /\ (ret'.op = "toObject" /\ ToObject(h, g)) => Post(Object)
                /\ (ret'.op = "push" /\ d[h] = d[g]
                      /\ (Push(g, h) \/ Push(g, g) \/ \E lit \in ProgLits : PushLit(g, lit))) =>
                     length(heap', d'[h]) = length(heap, d[h]) + 1
         ]_vars

\* b = a.toArray() on a String: b is Null, a is still the String
ViewOfStringWitness ==
    /\ ret.op = "toArray" /\ ~ret.hit
    /\ type(heap, d["a"]) = String
    /\ d["b"] = NullCell /\ ret.node = NullCell

\* C9: operator== is value equality: true exactly for two values of one kind
\* that compare equal; two arrays holding equal elements in the same order are
\* equal, and exchanging two unequal elements of one of them makes them unequal.
EqualsIsValueEquality ==
    \A bd \in Builds :
        \A x, y \in LiveNodes(heap) :
            LET eq(m, n) == equals(heap, statics, bd, m, n)
                xs == heap[x].arr
                ys == heap[y].arr
            IN  /\ eq(x, y) <=> (type(heap, x) = type(heap, y)
                                   /\ compare(heap, statics, bd, x, y) = 0)
                /\ (isArray(heap, x) /\ isArray(heap, y) /\ Len(xs) = Len(ys)) =>
                     /\ (\A i \in 1..Len(xs) : eq(xs[i], ys[i])) => eq(x, y)
                     /\ \A i, j \in 1..Len(xs) :
                          (/\ i < j
                           /\ ~eq(xs[i], xs[j])
                           /\ eq(xs[i], ys[j]) /\ eq(xs[j], ys[i])
                           /\ \A k \in 1..Len(xs) : k \notin {i, j} => eq(xs[k], ys[k]))
                          => ~eq(x, y)

\* a == b was true of two arrays built apart from each other, each holding
\* two unequal elements
EqualsWitness ==
    /\ ret.op = "equals" /\ ret.val = 1
    /\ d["a"] # d["b"]
    /\ isArray(heap, d["a"]) /\ isArray(heap, d["b"])
    /\ length(heap, d["a"]) = 2 /\ length(heap, d["b"]) = 2
    /\ heap[d["a"]].arr[1] # heap[d["b"]].arr[1]
    /\ \A bd \in Builds :
         ~equals(heap, statics, bd, heap[d["a"]].arr[1], heap[d["a"]].arr[2])

\* the key at position i of a std::map with keys S
KeyAt(S, i) == CHOOSE k \in S : Cardinality({j \in S : StrLess(j, k)}) = i - 1

\* C10: two containers of one kind are ordered by size first; at equal sizes
\* by the first position with a non-zero result, in index order for arrays and
\* in ascending key order for objects, where a position of an object compares
\* the keys before the values.
ContainersOrderBySizeThenContent ==
    \A bd \in Builds :
        \A x, y \in LiveNodes(heap) :
            LET c == compare(heap, statics, bd, x, y)
                cmp(m, n) == compare(heap, statics, bd, m, n)
                First(P, n) ==
                    LET nz == {i \in 1..n : P[i] # 0}
                    IN  IF nz = {} THEN 0
                        ELSE P[CHOOSE i \in nz : \A j \in nz : i <= j]
            IN  /\ (isArray(heap, x) /\ isArray(heap, y)) =>
                     LET xs == heap[x].arr
                         ys == heap[y].arr
                     IN  IF Len(xs) # Len(ys)
                         THEN c = (IF Len(xs) < Len(ys) THEN 0 - 1 ELSE 1)
                         ELSE c = First([i \in 1..Len(xs) |-> cmp(xs[i], ys[i])], Len(xs))
                /\ (isObject(heap, x) /\ isObject(heap, y)) =>
                     LET kx == PresentKeys(heap, x)
                         ky == PresentKeys(heap, y)
                         AtPos(i) ==
                             LET kc == string_compare(bd, KeyAt(kx, i), KeyAt(ky, i))
                             IN  IF kc # 0 THEN kc
                                 ELSE cmp(heap[x].obj[KeyAt(kx, i)], heap[y].obj[KeyAt(ky, i)])
                     IN  IF Cardinality(kx) # Cardinality(ky)
                         THEN c = (IF Cardinality(kx) < Cardinality(ky) THEN 0 - 1 ELSE 1)
                         ELSE c = First([i \in 1..Cardinality(kx) |-> AtPos(i)],
                                        Cardinality(kx))

\* compare(a, b) was -1 for a shorter array a whose first element is the larger
ShorterArrayFirstWitness ==
    /\ ret.op = "compare" /\ ret.val = 0 - 1
    /\ isArray(heap, d["a"]) /\ isArray(heap, d["b"])
    /\ length(heap, d["a"]) = 1 /\ length(heap, d["b"]) = 2
    /\ type(heap, heap[d["a"]].arr[1]) = Integer /\ heap[heap[d["a"]].arr[1]].i = INT_MAX
    /\ type(heap, heap[d["b"]].arr[1]) = Integer /\ heap[heap[d["b"]].arr[1]].i = 1

====
